---- MODULE Spec2Model ----
(***************************************************************************)
(* A model of run_inference.py: setup_sample_file, the __main__ block and  *)
(* run(), with the tsinfer engine, the stdpopsim genetic-map service,      *)
(* tskit and the file system as the environment.                           *)
(*                                                                         *)
(* Numbers.  Floating-point values are modelled as exact rationals <<n,d>> *)
(* (d > 0); a rate array is [num |-> <<n1, ..., nk>>, den |-> d], the      *)
(* rates n_i / d.  Rounding error of the floating-point operations is not  *)
(* modelled.  An optional value (Python's None) is <<>> and a present      *)
(* value v is <<v>>.  A path is the sequence of the tokens of its name.    *)
(***************************************************************************)
EXTENDS Integers, Sequences, FiniteSets, TLC

VARIABLES
    pc,                     \* position of the process in __main__ / run()
    argv,                   \* the parsed command line (args)
    fs,                     \* the file system: path -> [kind, data, complete]
    map_cached,             \* whether the genetic map is in the local cache
    engine_outputs,         \* which genealogies match_samples may return
    sd,                     \* the loaded sample data (samples / params.sample_data)
    rec_rate,               \* the rate array (rho of __main__, params.rec_rate)
    precision,              \* the precision selected by run()
    inf_prefix,             \* the parameter-encoded prefix of the artifacts
    anc,                    \* the ancestor set returned by generate_ancestors
    inferred_anc_ts,        \* the genealogy returned by match_ancestors
    inferred_ts,            \* the genealogy returned by match_samples
    simplified_inferred_ts, \* inferred_ts.simplify()
    stats,                  \* nc_mean and nc_var
    kc,                     \* the KC distance
    result,                 \* the Results tuple run() returns
    error,                  \* the exception that ended the process
    trace,                  \* what the environment observed, in order
    baseline                \* the previous call of run() (its inputs and precision)

vars == <<pc, argv, fs, map_cached, engine_outputs, sd, rec_rate, precision,
          inf_prefix, anc, inferred_anc_ts, inferred_ts, simplified_inferred_ts,
          stats, kc, result, error, trace, baseline>>

runVars == <<precision, inf_prefix, anc, inferred_anc_ts, inferred_ts,
             simplified_inferred_ts, stats, kc, result>>

---------------------------------------------------------------------------
(* Bounds of the model. *)

\* The largest number of sites of a generated dataset, and of entries of a
\* rate array passed to run() directly.
MaxSites == 3
\* The largest number of local trees of a generated genealogy.
MaxTrees == 2

---------------------------------------------------------------------------
(* Values. *)

None == <<>>
Some(v) == <<v>>
IsNone(o) == o = <<>>
Get(o) == o[1]

Min2(a, b) == IF a <= b THEN a ELSE b
Max2(a, b) == IF a >= b THEN a ELSE b

RECURSIVE GCD(_, _)
GCD(a, b) == IF b = 0 THEN a ELSE GCD(b, a % b)
Abs(a) == IF a < 0 THEN -a ELSE a

\* Rationals <<n, d>>, d > 0.
RNorm(q) == LET g == GCD(Abs(q[1]), q[2]) IN <<q[1] \div g, q[2] \div g>>
REq(a, b) == a[1] * b[2] = b[1] * a[2]
RLeq(a, b) == a[1] * b[2] <= b[1] * a[2]
RLess(a, b) == a[1] * b[2] < b[1] * a[2]
RMul(a, b) == <<a[1] * b[1], a[2] * b[2]>>
RMin(a, b) == IF RLeq(a, b) THEN a ELSE b

RECURSIVE SeqMin(_)
SeqMin(s) == IF Len(s) = 1 THEN s[1] ELSE Min2(s[1], SeqMin(Tail(s)))

RECURSIVE SetToSortedSeq(_)
SetToSortedSeq(S) ==
    IF S = {} THEN <<>>
    ELSE LET m == CHOOSE m \in S : \A o \in S : m <= o
         IN <<m>> \o SetToSortedSeq(S \ {m})

\* s[mask]: numpy's selection of the entries of s by a boolean mask.
RECURSIVE SelectByMask(_, _)
SelectByMask(s, mask) ==
    IF s = <<>> THEN <<>>
    ELSE (IF mask[1] THEN <<s[1]>> ELSE <<>>) \o SelectByMask(Tail(s), Tail(mask))

\* np.diff
Diff(s) == [i \in 1..(IF Len(s) = 0 THEN 0 ELSE Len(s) - 1) |-> s[i + 1] - s[i]]

\* np.cumsum
RECURSIVE CumSum(_)
CumSum(s) ==
    IF s = <<>> THEN <<>>
    ELSE LET front == CumSum(SubSeq(s, 1, Len(s) - 1))
         IN Append(front, (IF front = <<>> THEN 0 ELSE front[Len(front)]) + s[Len(s)])

\* An exception: its class, the line that raises it, and whether that line is
\* a raise or assert statement of this program (a guard) or a failure that
\* surfaces from a library call or a conversion.
Err(type, line, explicit) == [type |-> type, line |-> line, explicit |-> explicit]
NoError == Err("none", 0, FALSE)

\* What the environment observes: a load of the dataset, a query of the map
\* service, a call of an engine stage (with the complete files that exist when
\* it is invoked and whether it returns), a write of a file, a created Results.
Event(kind, op, ok, path, files) ==
    [kind |-> kind, op |-> op, ok |-> ok, path |-> path, files |-> files]

CompleteFiles(f) == {p \in DOMAIN f : f[p].complete}
File(kind, data, complete) == [kind |-> kind, data |-> data, complete |-> complete]

---------------------------------------------------------------------------
(* Inputs. *)

SamplesSuffix == ".samples"
Digits == {"20"}

\* The names given on the command line.
Filenames ==
    { <<"sim", ".samples">>, <<"chr", "20", ".samples">>,
      <<"sim", ".trees">>, <<"chr", "20", ".samples", ".gz">> }

\* filename.endswith(".samples")
EndsWithSamples(filename) ==
    Len(filename) > 0 /\ filename[Len(filename)] = SamplesSuffix

\* re.search(r'(chr\d+)', filename)
HasChrToken(filename) ==
    \E i \in 1..(Len(filename) - 1) : filename[i] = "chr" /\ filename[i + 1] \in Digits

\* filename[:-len(".samples")]
StripSuffix(filename) == SubSeq(filename, 1, Len(filename) - 1)

\* Site positions of the generated datasets and the sequence length of all.
Positions == {0, 100, 500, 9999}

Dataset(positions, inference) ==
    [sites_position |-> positions, sites_inference |-> inference,
     sequence_length |-> 10000]

\* Five sites, all eligible.
ExampleDataset ==
    Dataset(<<0, 100, 500, 2000, 9999>>, <<TRUE, TRUE, TRUE, TRUE, TRUE>>)

\* Datasets: one to MaxSites sites at strictly increasing positions below the
\* sequence length, and any eligibility mask (none eligible included).
Datasets ==
    UNION { { Dataset(SetToSortedSeq(S), mask) : mask \in [1..Cardinality(S) -> BOOLEAN] } :
              S \in {T \in SUBSET Positions : T # {} /\ Cardinality(T) <= MaxSites} }
    \cup {ExampleDataset}

\* The mutation-rate multipliers -A and -S, and the precision override -p.
MutRates == {<<1, 100>>, <<1, 10>>, <<2, 1>>}
PrecisionOverrides == {None, Some(5)}

---------------------------------------------------------------------------
(* The genetic map of the map service and physical_to_genetic. *)

\* The chromosome map: breakpoints, and the rate from each breakpoint to the
\* next in units of 1/den per base (the last rate is unused), with a
\* zero-rate region at the start as in the HapMap maps.
ChrMap == [positions |-> <<0, 1000, 5000, 10000>>, rates |-> <<0, 2, 1, 0>>, den |-> 100000]

\* np.interp(x, xp, fp): piecewise linear, constant outside [xp[1], xp[n]].
Interp(x, xp, fp) ==
    IF x <= xp[1] THEN fp[1]
    ELSE IF x >= xp[Len(xp)] THEN fp[Len(fp)]
    ELSE LET j == CHOOSE j \in 1..(Len(xp) - 1) : xp[j] <= x /\ x < xp[j + 1]
         IN fp[j] + ((x - xp[j]) * (fp[j + 1] - fp[j])) \div (xp[j + 1] - xp[j])

\* The genetic positions (in units of 1/den) of the physical positions.
physical_to_genetic(recombination_map, input_physical_positions) ==
    LET map_pos == recombination_map.positions
        map_rates == recombination_map.rates
        steps == [i \in 1..(Len(map_pos) - 1) |-> Diff(map_pos)[i] * map_rates[i]]
        map_genetic_positions == <<0>> \o CumSum(steps)
    IN [i \in 1..Len(input_physical_positions) |->
          Interp(input_physical_positions[i], map_pos, map_genetic_positions)]

\* sd.sites_position[:][sd.sites_inference]
InferencePositions(data) == SelectByMask(data.sites_position, data.sites_inference)

\* rho when the name holds a chromosome token: np.concatenate(([0.0], np.diff(...)))
RhoGenetic(data) ==
    LET inference_distances == physical_to_genetic(ChrMap, InferencePositions(data))
    IN [num |-> <<0>> \o Diff(inference_distances), den |-> ChrMap.den]

\* rho otherwise: np.concatenate(([0.0], np.diff(...) / sd.sequence_length))
RhoPhysical(data) ==
    LET inference_distances == InferencePositions(data)
    IN [num |-> <<0>> \o Diff(inference_distances), den |-> data.sequence_length]

---------------------------------------------------------------------------
(* Precision selection: run(), lines 25-35. *)

\* The safety margin added to the larger digit count.
Margin == 3

\* ceil(-log10(q)) for a rational q > 0: the least k with q * 10^k >= 1.
RECURSIVE ScaleUp(_, _, _)
ScaleUp(n, d, k) == IF n >= d THEN k ELSE ScaleUp(n * 10, d, k + 1)
RECURSIVE ScaleDown(_, _, _)
ScaleDown(n, d, j) == IF n < d * 10 THEN j ELSE ScaleDown(n, d * 10, j + 1)
CeilLog10(q) ==
    IF q[1] >= q[2] THEN ScaleDown(q[1], q[2], 0) ELSE -ScaleUp(q[1], q[2], 0)
CeilNegLog10(q) ==
    IF q[1] >= q[2] THEN -ScaleDown(q[1], q[2], 0) ELSE ScaleUp(q[1], q[2], 0)

\* rho = params.rec_rate[1:]
Rho(rate_array) == [num |-> Tail(rate_array.num), den |-> rate_array.den]

\* np.quantile(rho, 0.5) of a non-empty rho (linear interpolation): the middle
\* entry of the sorted rates, or the mean of the two middle entries.
Quantile50(rho) ==
    LET sorted == SortSeq(rho.num, LAMBDA a, b : a < b)
        n == Len(sorted)
    IN IF n % 2 = 1
       THEN <<sorted[(n + 1) \div 2], rho.den>>
       ELSE <<sorted[n \div 2] + sorted[n \div 2 + 1], 2 * rho.den>>

\* min(1, params.ma_mut_rate, params.ms_mut_rate)
MinMutRate(ma_mut_rate, ms_mut_rate) == RMin(<<1, 1>>, RMin(ma_mut_rate, ms_mut_rate))

AutoPrecisionOfSmaller(min_rho, av_min) == Min2(min_rho, av_min) + Margin
\* precision = max(min_rho, av_min) + 3
AutoPrecision(min_rho, av_min) == Max2(min_rho, av_min) + Margin

\* The outcomes of lines 25-42: an exception, or the precision.  log10 of a
\* zero is -inf, and int() of the infinite digit count raises OverflowError.
\* Of an empty rho (a rate array of the sentinel alone), np.quantile raises
\* IndexError or returns nan, depending on numpy's version, and np.min
\* raises ValueError at line 29, or at line 41 when the precision is given.
PrecisionOutcomes(rate_array, ma_mut_rate, ms_mut_rate, override) ==
    LET rho == Rho(rate_array)
        raised(e) == [error |-> e, precision |-> 0]
    IN IF rho.num = <<>>
       THEN { raised(Err("IndexError", 26, FALSE)),
              raised(Err("ValueError", IF IsNone(override) THEN 29 ELSE 41, FALSE)) }
       ELSE LET base_rec_prob == Quantile50(rho)
                smallest == <<SeqMin(rho.num), rho.den>>
                scaled == RMul(MinMutRate(ma_mut_rate, ms_mut_rate), base_rec_prob)
            IN IF ~IsNone(override)
               THEN { [error |-> NoError, precision |-> Get(override)] }
               ELSE IF smallest[1] = 0
               THEN { raised(Err("OverflowError", 29, FALSE)) }
               ELSE IF scaled[1] = 0
               THEN { raised(Err("OverflowError", 31, FALSE)) }
               ELSE { [error |-> NoError,
                       precision |-> AutoPrecision(CeilNegLog10(smallest),
                                                   CeilNegLog10(scaled))] }

---------------------------------------------------------------------------
(* Genealogies (tree sequences) and the tskit operations on them. *)

\* The nodes of a genealogy; the samples are its first nodes.
Nodes == 1..5
SampleNodes == 1..3

\* A local tree: the length of its interval and the parent of each node
\* (0: none).  A parent is an internal node with a larger id.
Tree(span, parent) == [span |-> span, parent |-> parent]
Genealogy(trees, num_mutations) == [trees |-> trees, num_mutations |-> num_mutations]

Children(tree, n) == {c \in Nodes : tree.parent[c] = n}
\* tree.num_children(n)
NumChildren(tree, n) == Cardinality(Children(tree, n))
\* tree.nodes(): the samples and every node with an edge in the tree
TreeNodes(tree) ==
    {n \in Nodes : n \in SampleNodes \/ tree.parent[n] # 0 \/ Children(tree, n) # {}}

\* One local tree of ts.simplify(): an internal node left without children
\* loses its edge, and an internal node with one child is removed, its child
\* taking its place.
RECURSIVE SimplifyTree(_)
SimplifyTree(tree) ==
    LET internal == Nodes \ SampleNodes
        dangling == {n \in internal : tree.parent[n] # 0 /\ Children(tree, n) = {}}
        unary == {n \in internal : NumChildren(tree, n) = 1}
    IN IF dangling # {}
       THEN LET n == CHOOSE n \in dangling : TRUE
            IN SimplifyTree([tree EXCEPT !.parent[n] = 0])
       ELSE IF unary # {}
       THEN LET u == CHOOSE u \in unary : TRUE
                c == CHOOSE c \in Children(tree, u) : TRUE
            IN SimplifyTree([tree EXCEPT !.parent[c] = tree.parent[u], !.parent[u] = 0])
       ELSE tree

\* ts.simplify()
Simplify(ts) == [ts EXCEPT !.trees = [i \in DOMAIN ts.trees |-> SimplifyTree(ts.trees[i])]]

\* ts.num_edges
NumEdges(ts) ==
    Cardinality({e \in Nodes \X Nodes : \E i \in DOMAIN ts.trees : ts.trees[i].parent[e[1]] = e[2]})

\* ts.kc_distance(other): zero between equal genealogies.
KCDistance(ts, other) == IF ts.trees = other.trees THEN 0 ELSE 1

\* os.path.getsize of a dumped genealogy
FileSize(file) == 1 + Len(file.data.trees)

BinaryShape == <<4, 4, 5, 5, 0>>
StarShape == <<5, 5, 5, 0, 0>>
UnaryRootShape == <<4, 4, 4, 5, 0>>

\* What the engine of the whole-program specification returns.
EngineOutputs ==
    { Genealogy(<<Tree(10, BinaryShape)>>, 4),
      Genealogy(<<Tree(4, UnaryRootShape), Tree(6, BinaryShape)>>, 7),
      Genealogy(<<Tree(3, StarShape), Tree(7, UnaryRootShape)>>, 2) }

\* Generated genealogies: every sample has a parent in every tree.
Spans == {1, 3}
TreeShapes ==
    {p \in [Nodes -> {0, 4, 5}] :
        /\ \A n \in SampleNodes : p[n] # 0
        /\ p[4] \in {0, 5}
        /\ p[5] = 0}
Trees == {Tree(span, p) : span \in Spans, p \in TreeShapes}
Genealogies ==
    {Genealogy(trees, 0) : trees \in UNION {[1..n -> Trees] : n \in 1..MaxTrees}}

\* The genealogies the engine may return, by the name of the collection.
EngineRepertoire(name) == IF name = "generated" THEN Genealogies ELSE EngineOutputs

---------------------------------------------------------------------------
(* The statistics of run(), lines 86-98. *)

\* The inner loop, over the nodes of one tree.
RECURSIVE VisitNodes(_, _, _)
VisitNodes(tree, nodes, acc) ==
    IF nodes = {} THEN acc
    ELSE LET n == CHOOSE n \in nodes : TRUE
             n_children == NumChildren(tree, n)
         IN VisitNodes(tree, nodes \ {n},
                IF n_children > 0
                THEN [nc_sum |-> acc.nc_sum + n_children * tree.span,
                      nc_sum_sq |-> acc.nc_sum_sq + (n_children * n_children) * tree.span,
                      nc_tot |-> acc.nc_tot + tree.span]
                ELSE acc)

\* The outer loop, over the trees from the i-th on.
RECURSIVE VisitTrees(_, _, _)
VisitTrees(trees, i, acc) ==
    IF i > Len(trees) THEN acc
    ELSE VisitTrees(trees, i + 1, VisitNodes(trees[i], TreeNodes(trees[i]), acc))

\* nc_sum, nc_sum_sq and nc_tot after the loops.
NodeChildrenSums(ts) ==
    VisitTrees(ts.trees, 1, [nc_sum |-> 0, nc_sum_sq |-> 0, nc_tot |-> 0])

\* nc_mean and nc_var, lines 97-98, as reduced fractions.
NodeChildrenStats(acc) ==
    [nc_mean |-> RNorm(<<acc.nc_sum, acc.nc_tot>>),
     nc_var |-> RNorm(<<acc.nc_sum_sq * acc.nc_tot - acc.nc_sum * acc.nc_sum,
                        acc.nc_tot * acc.nc_tot>>)]

---------------------------------------------------------------------------
(* The initial states: the command line and the file system. *)

ResultsPath(filename) == StripSuffix(filename) \o <<".results">>
\* prefix + ".trees": the genealogy the inferred one is compared with
GroundTruthPath(filename) == StripSuffix(filename) \o <<".trees">>

\* The genealogy of a ground-truth file.
GroundTruth == Genealogy(<<Tree(10, BinaryShape)>>, 4)

NoFiles == [p \in {} |-> File("none", <<>>, FALSE)]

\* The sample file, the ground-truth file and an earlier results file, each
\* present or absent.
InitialFileSystems(filename) ==
    LET sample == {NoFiles} \cup {filename :> File("samples", d, TRUE) : d \in Datasets}
        truth == {NoFiles, GroundTruthPath(filename) :> File("trees", GroundTruth, TRUE)}
        earlier == {NoFiles, ResultsPath(filename) :> File("results", <<"earlier">>, TRUE)}
    IN IF EndsWithSamples(filename)
       THEN {a @@ b @@ c : a \in sample, b \in truth, c \in earlier}
       ELSE sample

InitRun ==
    /\ sd = None
    /\ rec_rate = None
    /\ precision = None
    /\ inf_prefix = None
    /\ anc = None
    /\ inferred_anc_ts = None
    /\ inferred_ts = None
    /\ simplified_inferred_ts = None
    /\ stats = None
    /\ kc = None
    /\ result = None
    /\ error = NoError
    /\ trace = <<>>
    /\ baseline = None

Init ==
    /\ pc = "setup"
    /\ argv \in [sample_file : Filenames,
                 match_ancestors_mrate : MutRates,
                 match_samples_mrate : MutRates,
                 precision : PrecisionOverrides]
    /\ fs \in InitialFileSystems(argv.sample_file)
    \* the cache is read only when the name holds a chromosome token
    /\ map_cached \in (IF HasChrToken(argv.sample_file) THEN BOOLEAN ELSE {FALSE})
    /\ engine_outputs = "examples"
    /\ InitRun

---------------------------------------------------------------------------
(* setup_sample_file and __main__. *)

\* An uncaught exception ends the process.
Fail(e) == pc' = "failed" /\ error' = e

CheckSuffixAfterLoad ==
    /\ pc = "setup"
    /\ pc' = "load"
    /\ UNCHANGED <<argv, fs, map_cached, engine_outputs, sd, rec_rate, runVars,
                   error, trace, baseline>>
\* Lines 135-136.
CheckSuffix ==
    /\ pc = "setup"
    /\ IF EndsWithSamples(argv.sample_file)
       THEN pc' = "load" /\ UNCHANGED error
       ELSE Fail(Err("ValueError", 136, TRUE))
    /\ UNCHANGED <<argv, fs, map_cached, engine_outputs, sd, rec_rate, runVars,
                   trace, baseline>>

\* Lines 137-139: tsinfer.load and the search for the chromosome token.
LoadSampleData ==
    /\ pc = "load"
    /\ trace' = Append(trace, Event("load", "tsinfer.load", argv.sample_file \in DOMAIN fs,
                                    argv.sample_file, {}))
    /\ IF argv.sample_file \in DOMAIN fs /\ fs[argv.sample_file].kind = "samples"
       THEN /\ sd' = Some([path |-> Some(argv.sample_file), data |-> fs[argv.sample_file].data])
            /\ pc' = IF HasChrToken(argv.sample_file) THEN "map" ELSE "rho"
            /\ UNCHANGED error
       ELSE /\ Fail(Err("FileNotFoundError", 137, FALSE))
            /\ UNCHANGED sd
    /\ UNCHANGED <<argv, fs, map_cached, engine_outputs, rec_rate, runVars, baseline>>

\* Lines 140-145: the map is taken from the cache, or downloaded first, which
\* may fail.
GetGeneticMap ==
    /\ pc = "map"
    /\ \/ /\ map_cached
          /\ trace' = Append(trace, Event("map", "get_chromosome_map", TRUE, <<>>, {}))
          /\ pc' = "rho"
          /\ UNCHANGED <<map_cached, error>>
       \/ /\ ~map_cached
          /\ trace' = Append(trace, Event("map", "download", TRUE, <<>>, {}))
          /\ map_cached' = TRUE
          /\ pc' = "rho"
          /\ UNCHANGED error
       \/ /\ ~map_cached
          /\ trace' = Append(trace, Event("map", "download", FALSE, <<>>, {}))
          /\ Fail(Err("ResourceUnavailable", 144, FALSE))
          /\ UNCHANGED map_cached
    /\ UNCHANGED <<argv, fs, engine_outputs, sd, rec_rate, runVars, baseline>>

\* Lines 146-155: the rate array.
ComputeRho ==
    /\ pc = "rho"
    /\ rec_rate' = Some(IF HasChrToken(argv.sample_file)
                        THEN RhoGenetic(Get(sd).data)
                        ELSE RhoPhysical(Get(sd).data))
    /\ pc' = "open"
    /\ UNCHANGED <<argv, fs, map_cached, engine_outputs, sd, runVars, error, trace,
                   baseline>>

\* Lines 185-193: the results file is created, or emptied, before run().
OpenResults ==
    /\ pc = "open"
    /\ LET path == ResultsPath(argv.sample_file)
       IN /\ fs' = (path :> File("results", <<>>, TRUE)) @@ fs
          /\ trace' = Append(trace, Event("write", "open", TRUE, path, {}))
    /\ pc' = "run"
    /\ UNCHANGED <<argv, map_cached, engine_outputs, sd, rec_rate, runVars, error,
                   baseline>>

---------------------------------------------------------------------------
(* run(). *)

\* "{}".format(v)
Format(v) == ToString(v)

\* Lines 46-51.
InfPrefix(path, ma_mut_rate, ms_mut_rate, digits) ==
    StripSuffix(path) \o
        <<"_ma", Format(ma_mut_rate), "_ms", Format(ms_mut_rate), "_p", Format(digits)>>

AncestorsPath == Get(inf_prefix) \o <<".ancestors">>
AncestorTreesPath == Get(inf_prefix) \o <<".atrees">>
\* ts_path
TreesPath == Get(inf_prefix) \o <<".trees">>

Call(op, ok) == Event("call", op, ok, <<>>, CompleteFiles(fs))
Write(op, path) == Event("write", op, TRUE, path, {})

\* Lines 25-52: the precision, then the prefix of the artifacts.
SelectPrecision ==
    /\ pc = "run"
    /\ \E o \in PrecisionOutcomes(Get(rec_rate), argv.match_ancestors_mrate,
                                  argv.match_samples_mrate, argv.precision) :
         IF o.error # NoError
         THEN Fail(o.error) /\ UNCHANGED <<precision, inf_prefix>>
         ELSE /\ precision' = Some(o.precision)
              /\ IF EndsWithSamples(Get(Get(sd).path))
                 THEN /\ inf_prefix' = Some(InfPrefix(Get(Get(sd).path),
                                                      argv.match_ancestors_mrate,
                                                      argv.match_samples_mrate,
                                                      o.precision))
                      /\ pc' = "generate_ancestors"
                      /\ UNCHANGED error
                 ELSE Fail(Err("AssertionError", 45, TRUE)) /\ UNCHANGED inf_prefix
    /\ UNCHANGED <<argv, fs, map_cached, engine_outputs, sd, rec_rate, anc,
                   inferred_anc_ts, inferred_ts, simplified_inferred_ts, stats, kc,
                   result, trace, baseline>>

GenerateAncestorsIgnoringFailure ==
    /\ pc = "generate_ancestors"
    /\ \/ /\ anc' = Some("ancestors")
          /\ fs' = (AncestorsPath :> File("ancestors", <<>>, TRUE)) @@ fs
          /\ trace' = trace \o <<Call("generate_ancestors", TRUE),
                                 Write("generate_ancestors", AncestorsPath)>>
       \/ /\ trace' = Append(trace, Call("generate_ancestors", FALSE))
          /\ UNCHANGED <<anc, fs>>
    /\ pc' = "match_ancestors"
    /\ UNCHANGED <<argv, map_cached, engine_outputs, sd, rec_rate, precision, inf_prefix,
                   inferred_anc_ts, inferred_ts, simplified_inferred_ts, stats, kc,
                   result, error, baseline>>
\* Lines 53-59: the engine builds the ancestors and writes them to the
\* ".ancestors" file, or raises, with the file untouched or left unfinished.
GenerateAncestors ==
    /\ pc = "generate_ancestors"
    /\ \/ /\ anc' = Some("ancestors")
          /\ fs' = (AncestorsPath :> File("ancestors", <<>>, TRUE)) @@ fs
          /\ trace' = trace \o <<Call("generate_ancestors", TRUE),
                                 Write("generate_ancestors", AncestorsPath)>>
          /\ pc' = "match_ancestors"
          /\ UNCHANGED error
       \/ /\ trace' = Append(trace, Call("generate_ancestors", FALSE))
          /\ Fail(Err("EngineFailure", 53, FALSE))
          /\ UNCHANGED <<anc, fs>>
       \/ /\ trace' = Append(trace, Call("generate_ancestors", FALSE))
          /\ fs' = (AncestorsPath :> File("ancestors", <<>>, FALSE)) @@ fs
          /\ Fail(Err("EngineFailure", 53, FALSE))
          /\ UNCHANGED anc
    /\ UNCHANGED <<argv, map_cached, engine_outputs, sd, rec_rate, precision, inf_prefix,
                   inferred_anc_ts, inferred_ts, simplified_inferred_ts, stats, kc,
                   result, baseline>>

MatchAncestorsRetrying ==
    /\ pc = "match_ancestors"
    /\ \/ /\ inferred_anc_ts' = Some("ancestor genealogy")
          /\ trace' = Append(trace, Call("match_ancestors", TRUE))
          /\ pc' = "dump_atrees"
       \/ /\ trace' = Append(trace, Call("match_ancestors", FALSE))
          /\ UNCHANGED <<pc, inferred_anc_ts>>
    /\ UNCHANGED <<argv, fs, map_cached, engine_outputs, sd, rec_rate, precision,
                   inf_prefix, anc, inferred_ts, simplified_inferred_ts, stats, kc,
                   result, error, baseline>>
\* Lines 60-68.
MatchAncestors ==
    /\ pc = "match_ancestors"
    /\ \/ /\ inferred_anc_ts' = Some("ancestor genealogy")
          /\ trace' = Append(trace, Call("match_ancestors", TRUE))
          /\ pc' = "dump_atrees"
          /\ UNCHANGED error
       \/ /\ trace' = Append(trace, Call("match_ancestors", FALSE))
          /\ Fail(Err("EngineFailure", 60, FALSE))
          /\ UNCHANGED inferred_anc_ts
    /\ UNCHANGED <<argv, fs, map_cached, engine_outputs, sd, rec_rate, precision,
                   inf_prefix, anc, inferred_ts, simplified_inferred_ts, stats, kc,
                   result, baseline>>

DumpAncestorTreesLater ==
    /\ pc = "dump_atrees"
    /\ pc' = "match_samples"
    /\ UNCHANGED <<argv, fs, map_cached, engine_outputs, sd, rec_rate, precision,
                   inf_prefix, anc, inferred_anc_ts, inferred_ts, simplified_inferred_ts,
                   stats, kc, result, error, trace, baseline>>
\* Lines 69-70.
DumpAncestorTrees ==
    /\ pc = "dump_atrees"
    /\ fs' = (AncestorTreesPath :> File("atrees", Get(inferred_anc_ts), TRUE)) @@ fs
    /\ trace' = Append(trace, Write("dump", AncestorTreesPath))
    /\ pc' = "match_samples"
    /\ UNCHANGED <<argv, map_cached, engine_outputs, sd, rec_rate, precision, inf_prefix,
                   anc, inferred_anc_ts, inferred_ts, simplified_inferred_ts, stats, kc,
                   result, error, baseline>>

\* Lines 71-80.
MatchSamples ==
    /\ pc = "match_samples"
    /\ \/ /\ \E ts \in EngineRepertoire(engine_outputs) : inferred_ts' = Some(ts)
          /\ trace' = Append(trace, Call("match_samples", TRUE))
          /\ pc' = "dump_trees"
          /\ UNCHANGED error
       \/ /\ trace' = Append(trace, Call("match_samples", FALSE))
          /\ Fail(Err("EngineFailure", 71, FALSE))
          /\ UNCHANGED inferred_ts
    /\ UNCHANGED <<argv, fs, map_cached, engine_outputs, sd, rec_rate, precision,
                   inf_prefix, anc, inferred_anc_ts, simplified_inferred_ts, stats, kc,
                   result, baseline>>

\* Lines 81-83.
DumpTrees ==
    /\ pc = "dump_trees"
    /\ fs' = (TreesPath :> File("trees", Get(inferred_ts), TRUE)) @@ fs
    /\ trace' = Append(trace, Write("dump", TreesPath))
    /\ pc' = "stats"
    /\ UNCHANGED <<argv, map_cached, engine_outputs, sd, rec_rate, precision, inf_prefix,
                   anc, inferred_anc_ts, inferred_ts, simplified_inferred_ts, stats, kc,
                   result, error, baseline>>

RECURSIVE VisitAllNodes(_, _, _)
VisitAllNodes(tree, nodes, acc) ==
    IF nodes = {} THEN acc
    ELSE LET n == CHOOSE n \in nodes : TRUE
             n_children == NumChildren(tree, n)
         IN VisitAllNodes(tree, nodes \ {n},
                [nc_sum |-> acc.nc_sum + n_children * tree.span,
                 nc_sum_sq |-> acc.nc_sum_sq + (n_children * n_children) * tree.span,
                 nc_tot |-> acc.nc_tot + tree.span])
RECURSIVE VisitTreesAllNodes(_, _, _)
VisitTreesAllNodes(trees, i, acc) ==
    IF i > Len(trees) THEN acc
    ELSE VisitTreesAllNodes(trees, i + 1,
                            VisitAllNodes(trees[i], TreeNodes(trees[i]), acc))
AggregateAllNodes(ts) ==
    VisitTreesAllNodes(ts.trees, 1, [nc_sum |-> 0, nc_sum_sq |-> 0, nc_tot |-> 0])
\* The loops of lines 86-96 over the simplified genealogy.
AggregateNodeChildren(ts) == NodeChildrenSums(ts)

\* Lines 84-98: simplify, then the mean and the variance of the number of
\* children; the division raises when no node has children.
ComputeStats ==
    /\ pc = "stats"
    /\ LET simplified == Simplify(Get(inferred_ts))
           sums == AggregateNodeChildren(simplified)
       IN /\ simplified_inferred_ts' = Some(simplified)
          /\ IF sums.nc_tot = 0
             THEN Fail(Err("ZeroDivisionError", 97, FALSE)) /\ UNCHANGED stats
             ELSE /\ stats' = Some(NodeChildrenStats(sums))
                  /\ pc' = "kc"
                  /\ UNCHANGED error
    /\ UNCHANGED <<argv, fs, map_cached, engine_outputs, sd, rec_rate, precision,
                   inf_prefix, anc, inferred_anc_ts, inferred_ts, kc, result, trace,
                   baseline>>

ComputeKCUnguarded ==
    /\ pc = "kc"
    /\ LET path == GroundTruthPath(Get(Get(sd).path))
       IN IF path \in DOMAIN fs
          THEN /\ kc' = Some(KCDistance(Get(simplified_inferred_ts), fs[path].data))
               /\ pc' = "results"
               /\ UNCHANGED error
          ELSE Fail(Err("FileNotFoundError", 105, FALSE)) /\ UNCHANGED kc
    /\ UNCHANGED <<argv, fs, map_cached, engine_outputs, sd, rec_rate, precision,
                   inf_prefix, anc, inferred_anc_ts, inferred_ts, simplified_inferred_ts,
                   stats, result, trace, baseline>>
\* Lines 103-107: the distance to the ground truth when its file exists.
ComputeKC ==
    /\ pc = "kc"
    /\ LET path == GroundTruthPath(Get(Get(sd).path))
       IN kc' = IF path \in DOMAIN fs
                THEN Some(KCDistance(Get(simplified_inferred_ts), fs[path].data))
                ELSE None
    /\ pc' = "results"
    /\ UNCHANGED <<argv, fs, map_cached, engine_outputs, sd, rec_rate, precision,
                   inf_prefix, anc, inferred_anc_ts, inferred_ts, simplified_inferred_ts,
                   stats, result, error, trace, baseline>>

\* Lines 108-120: the Results tuple.
ReturnResults ==
    /\ pc = "results"
    /\ result' = Some([ma_mut |-> argv.match_ancestors_mrate,
                       ms_mut |-> argv.match_samples_mrate,
                       precision |-> Get(precision),
                       edges |-> NumEdges(Get(inferred_ts)),
                       muts |-> Get(inferred_ts).num_mutations,
                       num_trees |-> Len(Get(inferred_ts).trees),
                       kc |-> kc,
                       mean_node_children |-> Get(stats).nc_mean,
                       var_node_children |-> Get(stats).nc_var,
                       process_time |-> "process_time",
                       ts_size |-> FileSize(fs[TreesPath]),
                       ts_path |-> TreesPath])
    /\ trace' = Append(trace, Event("result", "Results", TRUE, <<>>, {}))
    /\ pc' = "write"
    /\ UNCHANGED <<argv, fs, map_cached, engine_outputs, sd, rec_rate, precision,
                   inf_prefix, anc, inferred_anc_ts, inferred_ts, simplified_inferred_ts,
                   stats, kc, error, baseline>>

\* Line 195: the line of the result is written to the results file.
WriteResultLine ==
    /\ pc = "write"
    /\ LET path == ResultsPath(argv.sample_file)
       IN /\ fs' = [fs EXCEPT ![path].data = Append(@, Get(result))]
          /\ trace' = Append(trace, Write("print", path))
    /\ pc' = "done"
    /\ UNCHANGED <<argv, map_cached, engine_outputs, sd, rec_rate, runVars, error,
                   baseline>>

Next ==
    \/ CheckSuffix
    \/ LoadSampleData
    \/ GetGeneticMap
    \/ ComputeRho
    \/ OpenResults
    \/ SelectPrecision
    \/ GenerateAncestors
    \/ MatchAncestors
    \/ DumpAncestorTrees
    \/ MatchSamples
    \/ DumpTrees
    \/ ComputeStats
    \/ ComputeKC
    \/ ReturnResults
    \/ WriteResultLine

\* The program, run once on any command line and file system.
Spec == Init /\ [][Next]_vars

---------------------------------------------------------------------------
(* The program with an engine that returns any generated genealogy. *)

InitStats ==
    /\ pc = "setup"
    /\ argv = [sample_file |-> <<"chr", "20", ".samples">>,
               match_ancestors_mrate |-> <<1, 10>>,
               match_samples_mrate |-> <<1, 100>>,
               precision |-> None]
    /\ fs = (argv.sample_file :>
                File("samples", Dataset(<<100, 2000, 9999>>, <<TRUE, TRUE, TRUE>>), TRUE))
    /\ map_cached \in BOOLEAN
    /\ engine_outputs = "generated"
    /\ InitRun

SpecStats == InitStats /\ [][Next]_vars

---------------------------------------------------------------------------
(* run() called directly on any rate array, up to its choice of the        *)
(* precision, and called again on a smaller input.                         *)

\* Rates, in hundredths: 0.01, 0.1, 0.5, 1 and 20.
RateNums == {1, 10, 50, 100, 2000}

\* The sentinel and one to MaxSites rates.
DirectRateArrays ==
    {[num |-> <<0>> \o rates, den |-> 100] :
        rates \in UNION {[1..n -> RateNums] : n \in 1..MaxSites}}

InitPrecision ==
    /\ pc = "run"
    /\ argv \in [sample_file : {<<"sim", ".samples">>},
                 match_ancestors_mrate : MutRates,
                 match_samples_mrate : MutRates,
                 precision : {None}]
    /\ fs = (argv.sample_file :> File("samples", ExampleDataset, TRUE))
    /\ map_cached = FALSE
    /\ engine_outputs = "examples"
    /\ sd = Some([path |-> Some(argv.sample_file), data |-> ExampleDataset])
    /\ \E rates \in DirectRateArrays : rec_rate = Some(rates)
    /\ precision = None
    /\ inf_prefix = None
    /\ anc = None
    /\ inferred_anc_ts = None
    /\ inferred_ts = None
    /\ simplified_inferred_ts = None
    /\ stats = None
    /\ kc = None
    /\ result = None
    /\ error = NoError
    /\ trace = <<>>
    /\ baseline = None

\* The inputs and the precision of the call that has chosen its precision.
ThisCall ==
    [rec_rate |-> Get(rec_rate),
     ma_mut_rate |-> argv.match_ancestors_mrate,
     ms_mut_rate |-> argv.match_samples_mrate,
     precision |-> Get(precision)]

\* A further call of run(), with one rate after the sentinel made smaller.
CallWithSmallerRate ==
    /\ pc = "generate_ancestors"
    /\ \E i \in 2..Len(Get(rec_rate).num), v \in RateNums :
         /\ v < Get(rec_rate).num[i]
         /\ rec_rate' = Some([Get(rec_rate) EXCEPT !.num[i] = v])
    /\ baseline' = Some(ThisCall)
    /\ precision' = None
    /\ inf_prefix' = None
    /\ pc' = "run"
    /\ UNCHANGED <<argv, fs, map_cached, engine_outputs, sd, anc, inferred_anc_ts,
                   inferred_ts, simplified_inferred_ts, stats, kc, result, error, trace>>

\* A further call of run(), with one of the two multipliers made smaller.
CallWithSmallerMutRate ==
    /\ pc = "generate_ancestors"
    /\ \E v \in MutRates :
         \/ /\ RLess(v, argv.match_ancestors_mrate)
            /\ argv' = [argv EXCEPT !.match_ancestors_mrate = v]
         \/ /\ RLess(v, argv.match_samples_mrate)
            /\ argv' = [argv EXCEPT !.match_samples_mrate = v]
    /\ baseline' = Some(ThisCall)
    /\ precision' = None
    /\ inf_prefix' = None
    /\ pc' = "run"
    /\ UNCHANGED <<fs, map_cached, engine_outputs, sd, rec_rate, anc, inferred_anc_ts,
                   inferred_ts, simplified_inferred_ts, stats, kc, result, error, trace>>

NextPrecision ==
    \/ SelectPrecision
    \/ CallWithSmallerRate
    \/ CallWithSmallerMutRate

SpecPrecision == InitPrecision /\ [][NextPrecision]_vars

---------------------------------------------------------------------------
(* Properties. *)

IsCall(i, op) == trace[i].kind = "call" /\ trace[i].op = op
Returned(i, op) == IsCall(i, op) /\ trace[i].ok
EngineStages == {"generate_ancestors", "match_ancestors", "match_samples"}
\* The writes of artifact files, as positions of the trace.
ArtifactWrites ==
    {i \in DOMAIN trace :
        trace[i].kind = "write" /\ trace[i].op \in {"generate_ancestors", "dump"}}
ResultLineWrites == {i \in DOMAIN trace : trace[i].kind = "write" /\ trace[i].op = "print"}
ResultsCreated == {i \in DOMAIN trace : trace[i].kind = "result"}
SomeStageFailed == \E i \in DOMAIN trace : trace[i].kind = "call" /\ ~trace[i].ok
AllStagesDone ==
    /\ \E i \in DOMAIN trace : Returned(i, "match_samples")
    /\ \E i \in ArtifactWrites : trace[i].path = TreesPath

\* C1: match_ancestors is invoked only after generate_ancestors has returned,
\* match_samples only after match_ancestors has returned, and after a stage
\* that raised no stage is invoked.
C1_StageOrdering ==
    \A i \in DOMAIN trace :
        /\ IsCall(i, "match_ancestors") =>
              \E j \in 1..(i - 1) : Returned(j, "generate_ancestors")
        /\ IsCall(i, "match_samples") =>
              \E j \in 1..(i - 1) : Returned(j, "match_ancestors")
        /\ (trace[i].kind = "call" /\ ~trace[i].ok) =>
              \A k \in (i + 1)..Len(trace) : trace[k].kind # "call"

\* The three stages have been invoked, each after the one before it returned.
C1_Witness ==
    /\ pc = "dump_trees"
    /\ \E i, j, k \in DOMAIN trace :
         /\ i < j /\ j < k
         /\ Returned(i, "generate_ancestors")
         /\ Returned(j, "match_ancestors")
         /\ Returned(k, "match_samples")

\* C2: when match_ancestors is invoked the ".ancestors" file is complete, when
\* match_samples is invoked the ".atrees" file is complete, and a run that
\* ends well has written three artifact files, ".ancestors", ".atrees" and
\* ".trees" of the one prefix, each once.
C2_ArtifactsBeforeNextStage ==
    /\ \A i \in DOMAIN trace :
         /\ IsCall(i, "match_ancestors") => AncestorsPath \in trace[i].files
         /\ IsCall(i, "match_samples") => AncestorTreesPath \in trace[i].files
    /\ pc = "done" =>
         /\ Cardinality(ArtifactWrites) = 3
         /\ {trace[i].path : i \in ArtifactWrites}
              = {AncestorsPath, AncestorTreesPath, TreesPath}
         /\ Cardinality({AncestorsPath, AncestorTreesPath, TreesPath}) = 3
         /\ {AncestorsPath, AncestorTreesPath, TreesPath} \subseteq CompleteFiles(fs)

\* A run has ended well with the three artifact files on disk.
C2_Witness ==
    /\ pc = "done"
    /\ fs[AncestorsPath].kind = "ancestors"
    /\ fs[AncestorTreesPath].kind = "atrees"
    /\ fs[TreesPath].kind = "trees"

\* C3: a Results is created and its line written once, and only after the
\* three stages; when a stage fails the process ends with the failure, no
\* Results is created, no line is written, no stage is invoked twice and the
\* artifact files written before stay in place.
C3_ResultOnlyAfterAllStages ==
    /\ Cardinality(ResultsCreated) <= 1
    /\ Cardinality(ResultLineWrites) <= 1
    /\ (ResultsCreated # {} \/ ResultLineWrites # {} \/ ~IsNone(result)) => AllStagesDone
    /\ \A op \in EngineStages : Cardinality({i \in DOMAIN trace : IsCall(i, op)}) <= 1
    /\ pc = "done" =>
         /\ Cardinality(ResultsCreated) = 1
         /\ Cardinality(ResultLineWrites) = 1
         /\ fs[ResultsPath(argv.sample_file)].data = <<Get(result)>>
    /\ SomeStageFailed =>
         /\ pc = "failed"
         /\ error.type = "EngineFailure"
         /\ IsNone(result)
         /\ ResultsCreated = {}
         /\ ResultLineWrites = {}
         /\ fs[ResultsPath(argv.sample_file)].data = <<>>
         /\ \A i \in ArtifactWrites :
              trace[i].path \in DOMAIN fs /\ fs[trace[i].path].complete

\* The third stage has failed after the first two wrote their files.
C3_Witness ==
    /\ pc = "failed"
    /\ \E i \in DOMAIN trace : IsCall(i, "match_samples") /\ ~trace[i].ok
    /\ Cardinality(ArtifactWrites) = 2
    /\ IsNone(result)

\* rho of the call: the rates after the sentinel.
RatesAfterSentinel == Rho(Get(rec_rate))
AllRatesPositive == \A i \in DOMAIN RatesAfterSentinel.num : RatesAfterSentinel.num[i] > 0
MutRatesPositive == argv.match_ancestors_mrate[1] > 0 /\ argv.match_samples_mrate[1] > 0
PrecisionChosen == pc = "generate_ancestors" /\ IsNone(argv.precision)

\* C4 as stated: for positive rates and multipliers and no override the
\* precision is at least 3.
C4_PrecisionAtLeastThree ==
    (PrecisionChosen /\ AllRatesPositive /\ MutRatesPositive) => Get(precision) >= 3

\* C4 as amended: for positive rates of which the smallest is at most 1,
\* positive multipliers and no override, the precision is at least 3.
C4_PrecisionAtLeastThreeUpToOne ==
    (/\ PrecisionChosen /\ AllRatesPositive /\ MutRatesPositive
     /\ SeqMin(RatesAfterSentinel.num) <= RatesAfterSentinel.den)
        => Get(precision) >= 3

\* The smallest rate is 1, a larger rate is the median, and the precision is 3.
C4_Witness ==
    /\ PrecisionChosen
    /\ SeqMin(RatesAfterSentinel.num) = RatesAfterSentinel.den
    /\ RLess(<<1, 1>>, Quantile50(RatesAfterSentinel))
    /\ Get(precision) = 3

\* C5: a call whose input differs from the previous call's in one rate or one
\* multiplier, which is smaller, chooses a precision at least as large.
C5_PrecisionMonotone ==
    (PrecisionChosen /\ ~IsNone(baseline)) => Get(precision) >= Get(baseline).precision

\* A rate was made smaller, the smallest rate is the same, another entry has
\* become the median, and the precision has grown.
C5_Witness ==
    /\ PrecisionChosen
    /\ ~IsNone(baseline)
    /\ Get(baseline).rec_rate # Get(rec_rate)
    /\ SeqMin(Rho(Get(baseline).rec_rate).num) = SeqMin(RatesAfterSentinel.num)
    /\ Len(RatesAfterSentinel.num) = 3
    /\ RLess(Quantile50(RatesAfterSentinel), Quantile50(Rho(Get(baseline).rec_rate)))
    /\ Get(precision) > Get(baseline).precision

\* C6: with no override and a zero rate after the sentinel, precision
\* selection stops the run by a guard of its own (an explicit raise in lines
\* 25-35) before any engine stage and before any artifact is named.
C6_ZeroRateGuarded ==
    (/\ ~IsNone(rec_rate)
     /\ pc \notin {"open", "run"}
     /\ IsNone(argv.precision)
     /\ \E i \in DOMAIN RatesAfterSentinel.num : RatesAfterSentinel.num[i] = 0)
        => /\ pc = "failed"
           /\ error.explicit
           /\ error.line \in 25..35
           /\ IsNone(precision)
           /\ IsNone(inf_prefix)
           /\ \A i \in DOMAIN trace : trace[i].kind # "call"

\* What the code does in the case of C6: the run ends before any engine stage
\* and before the prefix is built, by the OverflowError of int().
ZeroRateEndsRunByOverflow ==
    (/\ ~IsNone(rec_rate)
     /\ pc \notin {"open", "run"}
     /\ IsNone(argv.precision)
     /\ \E i \in DOMAIN RatesAfterSentinel.num : RatesAfterSentinel.num[i] = 0)
        => /\ pc = "failed"
           /\ error = Err("OverflowError", 29, FALSE)
           /\ IsNone(precision)
           /\ IsNone(inf_prefix)
           /\ \A i \in DOMAIN trace : trace[i].kind # "call"

\* C7: a name that does not end in ".samples" ends the process with the
\* ValueError of line 136 before the dataset is loaded, the map service is
\* queried, a stage is invoked or a file is created or written.
C7_BadSuffixFailsFirst ==
    (~EndsWithSamples(argv.sample_file) /\ pc # "setup") =>
        /\ pc = "failed"
        /\ error = Err("ValueError", 136, TRUE)
        /\ IsNone(sd)
        /\ IsNone(rec_rate)
        /\ trace = <<>>

\* The name is rejected although its file exists and holds a chromosome token.
C7_Witness ==
    /\ pc = "failed"
    /\ ~EndsWithSamples(argv.sample_file)
    /\ HasChrToken(argv.sample_file)
    /\ argv.sample_file \in DOMAIN fs

\* The positions of the eligible sites of the loaded dataset.
EligiblePositions == InferencePositions(Get(sd).data)

\* C8: with no chromosome token the rate array has one entry for each
\* eligible site, the first 0, and entry i the distance of eligible site i
\* from the one before it, divided by the sequence length, in [0, 1].
C8_PhysicalRateArray ==
    (~IsNone(rec_rate) /\ ~HasChrToken(argv.sample_file)) =>
        LET rates == Get(rec_rate)
            length == Get(sd).data.sequence_length
        IN /\ Len(rates.num) = Len(EligiblePositions)
           /\ rates.num[1] = 0
           /\ \A i \in 2..Len(rates.num) :
                /\ REq(<<rates.num[i], rates.den>>,
                       <<EligiblePositions[i] - EligiblePositions[i - 1], length>>)
                /\ RLeq(<<0, 1>>, <<rates.num[i], rates.den>>)
                /\ RLeq(<<rates.num[i], rates.den>>, <<1, 1>>)

\* What the code does in the case of C8: the same, with the sentinel always
\* there, so that a dataset with no eligible site has a rate array of one entry.
PhysicalRateArrayWithSentinel ==
    (~IsNone(rec_rate) /\ ~HasChrToken(argv.sample_file)) =>
        LET rates == Get(rec_rate)
            length == Get(sd).data.sequence_length
        IN /\ Len(rates.num) = Max2(1, Len(EligiblePositions))
           /\ rates.num[1] = 0
           /\ \A i \in 2..Len(rates.num) :
                /\ REq(<<rates.num[i], rates.den>>,
                       <<EligiblePositions[i] - EligiblePositions[i - 1], length>>)
                /\ RLeq(<<0, 1>>, <<rates.num[i], rates.den>>)
                /\ RLeq(<<rates.num[i], rates.den>>, <<1, 1>>)

\* The (tree, internal node) pairs of the simplified genealogy.
InternalPairs ==
    LET trees == Get(simplified_inferred_ts).trees
    IN {<<i, n>> \in (DOMAIN trees) \X Nodes : NumChildren(trees[i], n) > 0}
\* The sum over the pairs of children^power * span, by counting.
SpanWeightedPower(power) ==
    LET trees == Get(simplified_inferred_ts).trees
        children(pair) == NumChildren(trees[pair[1]], pair[2])
        spans == {trees[i].span : i \in DOMAIN trees}
        longest == CHOOSE m \in spans : \A o \in spans : o <= m
        fanouts == 1..Cardinality(Nodes)
    IN Cardinality({<<pair, a, b, c>> \in InternalPairs \X fanouts \X fanouts \X (1..longest) :
          /\ a <= (IF power >= 1 THEN children(pair) ELSE 1)
          /\ b <= (IF power >= 2 THEN children(pair) ELSE 1)
          /\ c <= trees[pair[1]].span})

\* C9: the mean is sum(children * span) / sum(span) and the variance is
\* sum(children^2 * span) / sum(span) - mean^2, over the internal nodes of
\* each local tree of the simplified genealogy; with one local tree whose
\* internal nodes all have 2 children they are 2 and 0; the variance is
\* never negative.
C9_ChildrenStatistics ==
    ~IsNone(stats) =>
        LET trees == Get(simplified_inferred_ts).trees
            first == SpanWeightedPower(1)
            second == SpanWeightedPower(2)
            total == SpanWeightedPower(0)
            mean == Get(stats).nc_mean
            var == Get(stats).nc_var
        IN /\ Get(simplified_inferred_ts) = Simplify(Get(inferred_ts))
           /\ REq(mean, <<first, total>>)
           /\ REq(var, <<second * total - first * first, total * total>>)
           /\ (Len(trees) = 1 /\ \A pair \in InternalPairs :
                                    NumChildren(trees[pair[1]], pair[2]) = 2)
                 => (mean = <<2, 1>> /\ var = <<0, 1>>)
           /\ var[1] >= 0

\* Statistics of two local trees of different spans, one with a node of three
\* children and one with nodes of two: the mean is not a whole number.
C9_Witness ==
    /\ ~IsNone(stats)
    /\ Len(Get(simplified_inferred_ts).trees) = 2
    /\ Get(simplified_inferred_ts).trees[1].span # Get(simplified_inferred_ts).trees[2].span
    /\ \E pair \in InternalPairs :
         NumChildren(Get(simplified_inferred_ts).trees[pair[1]], pair[2]) = 3
    /\ \E pair \in InternalPairs :
         NumChildren(Get(simplified_inferred_ts).trees[pair[1]], pair[2]) = 2
    /\ Get(stats).nc_mean[2] # 1
    /\ Get(stats).nc_var[1] > 0

\* C10: after the three stages, with no file at the ground-truth path the run
\* does not fail and its Results has no kc and every other field; with the
\* file, kc is the distance of the simplified genealogy to the file's; the
\* ground-truth path is none of the three artifact paths and is never written.
C10_MissingGroundTruthIsNoError ==
    LET truth == GroundTruthPath(argv.sample_file)
    IN /\ (pc = "failed" /\ truth \notin DOMAIN fs) => ~AllStagesDone
       /\ pc \in {"results", "write", "done"} =>
            kc = IF truth \in DOMAIN fs
                 THEN Some(KCDistance(Get(simplified_inferred_ts), fs[truth].data))
                 ELSE None
       /\ pc \in {"write", "done"} =>
            /\ ~IsNone(result)
            /\ Get(result).kc = kc
            /\ Get(result).precision = Get(precision)
            /\ Get(result).edges = NumEdges(Get(inferred_ts))
            /\ Get(result).muts = Get(inferred_ts).num_mutations
            /\ Get(result).num_trees = Len(Get(inferred_ts).trees)
            /\ Get(result).mean_node_children = Get(stats).nc_mean
            /\ Get(result).var_node_children = Get(stats).nc_var
            /\ Get(result).ts_path = TreesPath
            /\ Get(result).ts_size = FileSize(fs[TreesPath])
       /\ ~IsNone(inf_prefix) => truth \notin {AncestorsPath, AncestorTreesPath, TreesPath}
       /\ \A i \in DOMAIN trace : trace[i].kind = "write" => trace[i].path # truth

\* A run has ended well with no ground-truth file: its Results has no kc.
C10_Witness ==
    /\ pc = "done"
    /\ GroundTruthPath(argv.sample_file) \notin DOMAIN fs
    /\ Get(result).kc = None
    /\ Len(fs[ResultsPath(argv.sample_file)].data) = 1

====
